---------------------------- MODULE Spec2Model ----------------------------
(***************************************************************************)
(* A model of reddit_llm/main.py: fetch_subreddit_posts (the token-budget  *)
(* accumulation loop over the newest-first post listing), the cache files, *)
(* the empty-result exit of main, and the interactive question loop that   *)
(* calls RedditClaudeChat.question_with_context.                           *)
(*                                                                         *)
(* Time is counted in hours.  A string is a sequence of pieces: a rendered *)
(* post is one piece (a record), "\n".join puts a newline piece between    *)
(* two posts, and a typed question is a sequence of characters.            *)
(***************************************************************************)
EXTENDS Integers, Sequences, FiniteSets

(* ------------------------------ bounds -------------------------------- *)

\* Longest listing the forum source yields.
MaxPosts == 3

\* Largest token budget tried; a post costs between 1 and MaxTokens + 1.
MaxTokens == 3

\* Non-quit questions typed in one session.
MaxQuestions == 2

\* The wall clock (UTC, hours) when fetch_subreddit_posts starts.
UtcNowHours == 1000

(* ------------------------- program constants -------------------------- *)

\* main: time_period = 30 (days)
time_period == 30

HoursPerDay == 24

subreddit_name == "PathOfExile2"

(* ------------------------------ state --------------------------------- *)

VARIABLES
    pc,              \* where main is
    use_cache,       \* main's parameter
    save_cache,      \* main's parameter
    tz,              \* local zone's offset from UTC, in hours
    max_tokens,      \* fetch_subreddit_posts' parameter
    source,          \* subreddit.new(limit=None): the listing, newest first
    idx,             \* posts of the listing the loop body has processed
    all_posts,       \* fetch_subreddit_posts' local
    total_tokens,    \* fetch_subreddit_posts' local
    posts_included,  \* fetch_subreddit_posts' local, then main's
    posts_skipped,   \* fetch_subreddit_posts' local, then main's
    cache,           \* posts_cache.txt, posts_included.txt, posts_skipped.txt
    posts_content,   \* main's local: the context string
    question,        \* main's local: the last line read by input()
    request,         \* the messages of the last client.messages.create call
    n_inputs,        \* lines read by input() so far
    n_calls,         \* client.messages.create calls so far
    error,           \* the exception that ended the process, if any
    printed          \* the last thing main printed

vars == <<pc, use_cache, save_cache, tz, max_tokens, source, idx, all_posts,
          total_tokens, posts_included, posts_skipped, cache, posts_content,
          question, request, n_inputs, n_calls, error, printed>>

fetch_locals == <<source, idx, all_posts, total_tokens>>
loop_vars == <<question, request, n_inputs, n_calls>>
params == <<use_cache, save_cache, tz, max_tokens>>

(* ------------------------- fetch_subreddit_posts ---------------------- *)

\* timedelta(days=d), in hours
timedelta_days(d) == d * HoursPerDay

\* cutoff_time = datetime.utcnow() - timedelta(days=time_period_days)
cutoff_time == UtcNowHours - timedelta_days(time_period)

\* datetime.fromtimestamp(ts): the naive LOCAL time of a UTC timestamp
fromtimestamp(ts, offset) == ts + offset

\* The f-string of the loop body: title, time, URL and body of one post.
\* The permalink is the post's place in the listing; tokens is what the
\* tokenizer will count on this text.
post_text(i, post, offset) ==
    [kind |-> "post", permalink |-> i,
     time |-> fromtimestamp(post.created_utc, offset), tokens |-> post.size]

\* count_tokens(text): len(enc.encode(text))
count_tokens(text) == text.tokens

\* faulty variants of the budget test: the post's own cost forgotten, an
\* empty buffer always accepting, and < written for <=
FitsIgnoringPost(total, t, budget) == total <= budget
FitsOrEmptyBuffer(total, t, budget) == total + t <= budget \/ total = 0
FitsStrict(total, t, budget) == total + t < budget

\* if total_tokens + post_tokens <= max_tokens
Fits(total, t, budget) == total + t <= budget

\* faulty variant of the append: insert(0, post_text)
insert_front(posts, text) == <<text>> \o posts

\* all_posts.append(post_text)
append(posts, text) == Append(posts, text)

NL == [kind |-> "newline"]

RECURSIVE join(_)
\* "\n".join(all_posts)
join(posts) ==
    IF posts = <<>> THEN <<>>
    ELSE IF Len(posts) = 1 THEN <<posts[1]>>
    ELSE <<posts[1], NL>> \o join(Tail(posts))

(* ------------------------------- main --------------------------------- *)

\* faulty variant of the emptiness test: "posts_content is None", never true
\* of a string
IsNone(content) == FALSE

\* if not posts_content
NoPostsFound(content) == content = <<>>

\* str.lower(), one character
LowerChar(c) ==
    CASE c = "Q" -> "q" [] c = "U" -> "u" [] c = "I" -> "i" [] c = "T" -> "t"
      [] c = "W" -> "w" [] OTHER -> c

\* question.lower()
lower(s) == [i \in 1..Len(s) |-> LowerChar(s[i])]

\* faulty variant of the quit test: lower() forgotten
IsQuitExact(q) == q = <<"q", "u", "i", "t">>

\* if question.lower() == 'quit'
IsQuit(q) == lower(q) = <<"q", "u", "i", "t">>

\* the first message's content: f"Here are the Reddit posts ...:\n\n{context}"
ContextMessage(context, subreddit) ==
    <<[kind |-> "preamble", subreddit |-> subreddit]>> \o context

\* faulty variant of the request: the earlier question is sent along
messages_with_previous(context, subreddit, q) ==
    <<[role |-> "user", content |-> ContextMessage(context, subreddit)],
      [role |-> "user", content |-> question \o q]>>

\* messages=[...] of client.messages.create in question_with_context
messages(context, subreddit, q) ==
    <<[role |-> "user", content |-> ContextMessage(context, subreddit)],
      [role |-> "user", content |-> q]>>

(* ------------------------------ inputs -------------------------------- *)

\* A post of the listing: its created_utc and the tokens its rendering costs.
Posts == [created_utc : {cutoff_time - 1, cutoff_time}, size : 1..(MaxTokens + 1)]

Sources == UNION {[1..n -> Posts] : n \in 0..MaxPosts}

UTCOffsets == {-1, 0, 1}

Budgets == {MaxTokens - 1, MaxTokens}

NoFile == [exists |-> FALSE]

\* What an earlier run may have left in the three cache files.  The two
\* counts are written with str() and read with int(); they are kept as the
\* numbers they denote.
CacheFiles ==
    {NoFile,
     [exists |-> TRUE, content |-> <<>>, included |-> 0, skipped |-> 0],
     [exists |-> TRUE, content |-> <<>>, included |-> 0, skipped |-> 2],
     [exists |-> TRUE, included |-> 1, skipped |-> 0,
      content |-> join(<<post_text(1, [created_utc |-> cutoff_time, size |-> 1], 0)>>)],
     [exists |-> TRUE, included |-> 2, skipped |-> 1,
      content |-> join(<<post_text(1, [created_utc |-> cutoff_time, size |-> 1], 0),
                         post_text(3, [created_utc |-> cutoff_time, size |-> 2], 0)>>)]}

\* quit in every letter case
QuitSpellings ==
    {q \in [1..4 -> {"q", "u", "i", "t", "Q", "U", "I", "T"}] :
        /\ q[1] \in {"q", "Q"} /\ q[2] \in {"u", "U"}
        /\ q[3] \in {"i", "I"} /\ q[4] \in {"t", "T"}}

OtherInputs ==
    {<<>>, <<" ", "q", "u", "i", "t">>, <<"Q", "U", "I", "T", " ">>,
     <<"q", "u", "i", "t", "s">>, <<"q", "u", "i">>, <<"W", "h", "y">>}

Inputs == QuitSpellings \cup OtherInputs

NoRequest == <<>>

(* ------------------------------ actions ------------------------------- *)

Init ==
    /\ pc = "main"
    /\ use_cache \in BOOLEAN
    /\ IF use_cache
       THEN /\ save_cache = TRUE
            /\ cache \in CacheFiles
            /\ source = <<>>
            /\ tz = 0
            /\ max_tokens = MaxTokens
       ELSE /\ save_cache \in BOOLEAN
            /\ cache = NoFile
            /\ source \in Sources
            /\ tz \in UTCOffsets
            /\ max_tokens \in Budgets
    /\ idx = 0
    /\ all_posts = <<>>
    /\ total_tokens = 0
    /\ posts_included = 0
    /\ posts_skipped = 0
    /\ posts_content = <<>>
    /\ question = <<>>
    /\ request = NoRequest
    /\ n_inputs = 0
    /\ n_calls = 0
    /\ error = "none"
    /\ printed = "none"

\* main, use_cache: the three files are read
LoadCache ==
    /\ pc = "main"
    /\ use_cache
    /\ cache.exists
    /\ posts_content' = cache.content
    /\ posts_included' = cache.included
    /\ posts_skipped' = cache.skipped
    /\ pc' = "check"
    /\ UNCHANGED <<params, fetch_locals, cache, loop_vars, error, printed>>

\* main, use_cache: open() raises, nothing catches it
LoadCacheMissing ==
    /\ pc = "main"
    /\ use_cache
    /\ ~cache.exists
    /\ error' = "FileNotFoundError"
    /\ pc' = "crashed"
    /\ UNCHANGED <<params, fetch_locals, cache, loop_vars, posts_content,
                   posts_included, posts_skipped, printed>>

\* main, not use_cache: fetch_subreddit_posts is entered
FetchStart ==
    /\ pc = "main"
    /\ ~use_cache
    /\ all_posts' = <<>>
    /\ total_tokens' = 0
    /\ posts_included' = 0
    /\ posts_skipped' = 0
    /\ idx' = 0
    /\ printed' = "Fetching posts"
    /\ pc' = "loop"
    /\ UNCHANGED <<params, source, cache, loop_vars, posts_content, error>>

\* the post the for loop draws next, and its local time
NextPost == source[idx + 1]
NextText == post_text(idx + 1, NextPost, tz)
InWindow == ~(fromtimestamp(NextPost.created_utc, tz) < cutoff_time)

\* one iteration: the post fits and is appended
FetchInclude ==
    /\ pc = "loop"
    /\ idx < Len(source)
    /\ InWindow
    /\ Fits(total_tokens, count_tokens(NextText), max_tokens)
    /\ all_posts' = append(all_posts, NextText)
    /\ total_tokens' = total_tokens + count_tokens(NextText)
    /\ posts_included' = posts_included + 1
    /\ idx' = idx + 1
    /\ UNCHANGED <<pc, params, source, posts_skipped, cache, loop_vars,
                   posts_content, error, printed>>

\* faulty variant of the else branch: the skip is not counted
FetchSkipUncounted ==
    /\ pc = "loop"
    /\ idx < Len(source)
    /\ InWindow
    /\ ~Fits(total_tokens, count_tokens(NextText), max_tokens)
    /\ idx' = idx + 1
    /\ UNCHANGED <<pc, params, source, all_posts, total_tokens, posts_included,
                   posts_skipped, cache, loop_vars, posts_content, error, printed>>

\* one iteration: the post does not fit and is counted as skipped
FetchSkip ==
    /\ pc = "loop"
    /\ idx < Len(source)
    /\ InWindow
    /\ ~Fits(total_tokens, count_tokens(NextText), max_tokens)
    /\ posts_skipped' = posts_skipped + 1
    /\ idx' = idx + 1
    /\ UNCHANGED <<pc, params, source, all_posts, total_tokens, posts_included,
                   cache, loop_vars, posts_content, error, printed>>

\* if post_time < cutoff_time: break
FetchBreak ==
    /\ pc = "loop"
    /\ idx < Len(source)
    /\ ~InWindow
    /\ pc' = "join"
    /\ UNCHANGED <<params, fetch_locals, posts_included, posts_skipped, cache,
                   loop_vars, posts_content, error, printed>>

\* the listing is exhausted
FetchExhausted ==
    /\ pc = "loop"
    /\ idx = Len(source)
    /\ pc' = "join"
    /\ UNCHANGED <<params, fetch_locals, posts_included, posts_skipped, cache,
                   loop_vars, posts_content, error, printed>>

\* the join and the return; main keeps the triple and writes the cache files.
\* The function's locals and the listing are gone after the return.
FetchReturn ==
    /\ pc = "join"
    /\ posts_content' = join(all_posts)
    /\ cache' = IF save_cache
                THEN [exists |-> TRUE, content |-> join(all_posts),
                      included |-> posts_included, skipped |-> posts_skipped]
                ELSE cache
    /\ source' = <<>>
    /\ idx' = 0
    /\ all_posts' = <<>>
    /\ total_tokens' = 0
    /\ pc' = "check"
    /\ UNCHANGED <<params, posts_included, posts_skipped, loop_vars, error, printed>>

\* if not posts_content: print(...); return
ReportEmpty ==
    /\ pc = "check"
    /\ NoPostsFound(posts_content)
    /\ printed' = "No posts found"
    /\ pc' = "done"
    /\ UNCHANGED <<params, fetch_locals, posts_included, posts_skipped, cache,
                   loop_vars, posts_content, error>>

\* the chat object is made and the banner printed
EnterLoop ==
    /\ pc = "check"
    /\ ~NoPostsFound(posts_content)
    /\ printed' = "Ready to answer questions"
    /\ pc' = "prompt"
    /\ UNCHANGED <<params, fetch_locals, posts_included, posts_skipped, cache,
                   loop_vars, posts_content, error>>

\* input() returns a spelling of quit: break
Quit(q) ==
    /\ pc = "prompt"
    /\ IsQuit(q)
    /\ question' = q
    /\ n_inputs' = n_inputs + 1
    /\ pc' = "done"
    /\ UNCHANGED <<params, fetch_locals, posts_included, posts_skipped, cache,
                   posts_content, request, n_calls, error, printed>>

\* input() returns anything else: question_with_context sends the request
Ask(q) ==
    /\ pc = "prompt"
    /\ n_calls < MaxQuestions
    /\ ~IsQuit(q)
    /\ question' = q
    /\ n_inputs' = n_inputs + 1
    /\ request' = messages(posts_content, subreddit_name, q)
    /\ n_calls' = n_calls + 1
    /\ printed' = "Asking Claude"
    /\ pc' = "awaiting"
    /\ UNCHANGED <<params, fetch_locals, posts_included, posts_skipped, cache,
                   posts_content, error>>

\* messages.create returns; the blocks are printed; the loop goes round
BackendReply ==
    /\ pc = "awaiting"
    /\ printed' = "Claude's response"
    /\ pc' = "prompt"
    /\ UNCHANGED <<params, fetch_locals, posts_included, posts_skipped, cache,
                   loop_vars, posts_content, error>>

\* messages.create raises; neither question_with_context nor main catches it
BackendError ==
    /\ pc = "awaiting"
    /\ error' = "APIError"
    /\ pc' = "crashed"
    /\ UNCHANGED <<params, fetch_locals, posts_included, posts_skipped, cache,
                   loop_vars, posts_content, printed>>

ReadQuit == \E q \in Inputs : Quit(q)
ReadQuestion == \E q \in Inputs : Ask(q)

Next ==
    \/ LoadCache
    \/ LoadCacheMissing
    \/ FetchStart
    \/ FetchInclude
    \/ FetchSkip
    \/ FetchBreak
    \/ FetchExhausted
    \/ FetchReturn
    \/ ReportEmpty
    \/ EnterLoop
    \/ ReadQuit
    \/ ReadQuestion
    \/ BackendReply
    \/ BackendError

Spec == Init /\ [][Next]_vars

(* ----------------------- helpers of the properties -------------------- *)

RECURSIVE SumTokens(_)
\* the tokens of the post pieces of a sequence of pieces
SumTokens(pieces) ==
    IF pieces = <<>> THEN 0
    ELSE (IF Head(pieces).kind = "post" THEN Head(pieces).tokens ELSE 0)
         + SumTokens(Tail(pieces))

PostPieces(pieces) == SelectSeq(pieces, LAMBDA p : p.kind = "post")

InFetch == pc \in {"loop", "join"}

\* the text of a fresh fetch has been returned to main
Fetched == ~use_cache /\ pc \notin {"main", "loop", "join"}

\* post i of the listing is in all_posts
Included(i) == \E n \in 1..Len(all_posts) : all_posts[n].permalink = i

Oversized(i) == source[i].size > max_tokens

\* the tokens collected before the loop reached post k
TokensBefore(k) ==
    SumTokens(SelectSeq(all_posts, LAMBDA b : b.permalink < k))

\* the first post of the listing created before the cutoff (UTC against UTC)
FirstOld ==
    IF \E i \in 1..Len(source) : source[i].created_utc < cutoff_time
    THEN CHOOSE i \in 1..Len(source) :
            /\ source[i].created_utc < cutoff_time
            /\ \A j \in 1..(i - 1) : ~(source[j].created_utc < cutoff_time)
    ELSE Len(source) + 1

(* ------------------------------ claims -------------------------------- *)

\* C1: after every iteration of the accumulation loop and at the return, the
\* tokens of the collected blocks sum to at most max_tokens, the only allowed
\* exception being a single block that alone exceeds max_tokens.
C1_BudgetRespected ==
    /\ InFetch =>
          \/ SumTokens(all_posts) <= max_tokens
          \/ Len(all_posts) = 1 /\ all_posts[1].tokens > max_tokens
    /\ Fetched =>
          \/ SumTokens(posts_content) <= max_tokens
          \/ /\ Len(PostPieces(posts_content)) = 1
             /\ PostPieces(posts_content)[1].tokens > max_tokens

C1_Witness ==
    /\ pc = "join"
    /\ Len(all_posts) = 2
    /\ SumTokens(all_posts) = max_tokens
    /\ posts_skipped >= 1

\* C2 as stated: a post the loop has examined whose own block costs more than
\* max_tokens is in the output.
C2_OversizedPostEmitted ==
    InFetch => \A i \in 1..idx : Oversized(i) => Included(i)

\* C2 as amended: a post the loop has examined whose own block costs more than
\* max_tokens is never in the output, at any position: it is counted as skipped,
\* it is absent from the returned text, and no exception is raised.
C2_OversizedPostSkipped ==
    /\ InFetch =>
          /\ \A i \in 1..idx : Oversized(i) => ~Included(i)
          /\ posts_skipped >= Cardinality({i \in 1..idx : Oversized(i)})
          /\ error = "none"
    /\ pc = "join" =>
          \A n \in 1..Len(join(all_posts)) :
              join(all_posts)[n].kind = "post" =>
                  join(all_posts)[n].tokens <= max_tokens
    /\ Fetched =>
          \A n \in 1..Len(posts_content) :
              posts_content[n].kind = "post" =>
                  posts_content[n].tokens <= max_tokens

C2_Witness ==
    /\ pc = "join"
    /\ idx = 3
    /\ Oversized(2)
    /\ Included(1)
    /\ Included(3)
    /\ posts_skipped = 1

\* C3 as stated: the included posts are a contiguous slice of the examined
\* posts: between two included posts every post is included.
C3_ContiguousSlice ==
    InFetch =>
        \A i, j, k \in 1..idx :
            (i < k /\ k < j /\ Included(i) /\ Included(j)) => Included(k)

\* C3 as amended: the included posts are an order-preserving subsequence of the
\* examined posts, not always a contiguous one: a post is left out exactly
\* when, at its turn, the tokens collected so far plus its own exceed
\* max_tokens, later posts that still fit are added after it, and each of
\* those costs strictly fewer tokens than the post left out.
C3_OrderedSubsequence ==
    InFetch =>
        /\ \A m, n \in 1..Len(all_posts) :
              m < n => all_posts[m].permalink < all_posts[n].permalink
        /\ \A n \in 1..Len(all_posts) :
              /\ all_posts[n].permalink \in 1..idx
              /\ all_posts[n] = post_text(all_posts[n].permalink,
                                          source[all_posts[n].permalink], tz)
        /\ \A k \in 1..idx :
              Included(k) <=> TokensBefore(k) + source[k].size <= max_tokens
        /\ \A k, j \in 1..idx :
              (k < j /\ ~Included(k) /\ Included(j)) =>
                  source[j].size < source[k].size

C3_Witness ==
    /\ pc = "join"
    /\ idx = 3
    /\ Included(1)
    /\ ~Included(2)
    /\ Included(3)
    /\ ~Oversized(2)

\* C4: every backend call carries the unchanged posts_content and exactly the
\* question just typed; the context never changes in the loop, and each
\* non-quit input causes exactly one call.
C4_FreshContextEachCall ==
    [][
        /\ pc \in {"prompt", "awaiting"} => posts_content' = posts_content
        /\ n_calls' # n_calls =>
              /\ n_calls' = n_calls + 1
              /\ n_inputs' = n_inputs + 1
              /\ request' =
                    <<[role |-> "user",
                       content |-> <<[kind |-> "preamble",
                                      subreddit |-> subreddit_name]>>
                                   \o posts_content],
                      [role |-> "user", content |-> question']>>
        /\ (n_inputs' # n_inputs /\ question' \notin QuitSpellings) =>
              n_calls' = n_calls + 1
        /\ n_inputs' = n_inputs => (n_calls' = n_calls /\ request' = request)
    ]_vars

C4_Witness ==
    /\ pc = "awaiting"
    /\ n_calls = 2
    /\ n_inputs = 2
    /\ Len(posts_content) = 3
    /\ request[2].content = <<"W", "h", "y">>

\* C5 as stated: a failed backend call does not end the process; the loop
\* goes on to the next prompt.
C5_LoopSurvivesBackendError ==
    ~(pc = "crashed" /\ error = "APIError")

\* C6: an input that spells quit in any letter case ends the loop with no
\* backend call for it, after any number of questions; every other input
\* (empty, padded, a longer or shorter word) is sent as a question.
C6_QuitAnyCase ==
    [][
        n_inputs' = n_inputs + 1 =>
            IF question' \in QuitSpellings
            THEN pc' = "done" /\ n_calls' = n_calls /\ request' = request
            ELSE pc' = "awaiting" /\ n_calls' = n_calls + 1
    ]_vars

C6_Witness ==
    /\ pc = "done"
    /\ question = <<"Q", "u", "I", "t">>
    /\ n_calls = 2
    /\ n_inputs = 3

\* C7: with an empty combined text, fetched or read from the cache, main
\* reports the empty result and returns: no question is read and no backend
\* call is made, and no request ever carries an empty context.
C7_EmptyResultExits ==
    /\ [](((pc \in {"prompt", "awaiting"}) \/ n_inputs > 0 \/ n_calls > 0)
             => posts_content # <<>>)
    /\ [](request # NoRequest => Len(request[1].content) > 1)
    /\ [][
          /\ (pc = "join" /\ all_posts = <<>>) => posts_content' = <<>>
          /\ (pc = "check" /\ posts_content = <<>>) =>
                (pc' = "done" /\ printed' = "No posts found")
       ]_vars

C7_Witness ==
    /\ pc = "done"
    /\ printed = "No posts found"
    /\ ~use_cache
    /\ posts_included = 0
    /\ posts_skipped = 0
    /\ n_inputs = 0
    /\ n_calls = 0

\* C8 as stated: the loop stops at the first post created before the cutoff:
\* neither that post nor a later one is examined, and every post before it is.
C8_StopsAtFirstOldPost ==
    /\ InFetch => idx < FirstOld
    /\ pc = "join" => idx = FirstOld - 1

\* C9: a post that brings the running total exactly to max_tokens is kept; a
\* post is turned away only when the total would be strictly greater.
C9_ExactFitKept ==
    [][
        (pc = "loop" /\ idx' = idx + 1) =>
            LET t == source[idx'].size IN
            /\ total_tokens + t = max_tokens =>
                  /\ Len(all_posts') = Len(all_posts) + 1
                  /\ all_posts'[Len(all_posts')].permalink = idx'
                  /\ total_tokens' = max_tokens
            /\ Len(all_posts') = Len(all_posts) => total_tokens + t > max_tokens
            /\ total_tokens + t > max_tokens => all_posts' = all_posts
    ]_vars

C9_Witness ==
    /\ pc = "loop"
    /\ total_tokens = max_tokens
    /\ Len(all_posts) = 2
    /\ posts_skipped = 0

\* C10: after every iteration, included + skipped is the number of posts
\* examined, posts_included is the length of all_posts, total_tokens is the sum
\* of its blocks' tokens, and all_posts is an order-preserving subsequence of
\* the rendered posts with no block twice.
C10_Accounting ==
    InFetch =>
        /\ posts_included + posts_skipped = idx
        /\ posts_included = Len(all_posts)
        /\ total_tokens = SumTokens(all_posts)
        /\ \A m, n \in 1..Len(all_posts) :
              m < n => all_posts[m].permalink < all_posts[n].permalink
        /\ \A n \in 1..Len(all_posts) :
              /\ all_posts[n].permalink \in 1..idx
              /\ all_posts[n] = post_text(all_posts[n].permalink,
                                          source[all_posts[n].permalink], tz)
        /\ posts_skipped = Cardinality({i \in 1..idx : ~Included(i)})

C10_Witness ==
    /\ pc = "loop"
    /\ idx = 3
    /\ posts_included = 1
    /\ posts_skipped = 2

=============================================================================
